---- MODULE Spec2Model ----
(***************************************************************************)
(* Model of bot.py: the /download command handler (download_command), the  *)
(* resolver (download_video) and its two strategies (download_with_ytdlp,  *)
(* download_direct), together with the pure helpers they use.              *)
(*                                                                         *)
(* Strings the code inspects character by character (URL paths, content    *)
(* types, file names) are sequences of one-character strings.  A parsed    *)
(* URL is the record urlparse() yields: [scheme, netloc, path].            *)
(*                                                                         *)
(* Environment: the network (HEAD, GET, body stream), the extractor        *)
(* library, the Discord API, mkdtemp, makedirs, open() and write() may     *)
(* each fail with an exception.  os.remove() of the file the function has  *)
(* just closed and shutil.rmtree(.., ignore_errors=True) of the request's  *)
(* own directory are taken to succeed.                                     *)
(***************************************************************************)
EXTENDS Integers, Sequences, FiniteSets, TLC

----------------------------------------------------------------------------
(* Bounds *)

\* The size ceiling, in model bytes (bot.py:22 computes it from the
\* MAX_FILE_SIZE_MB setting; the model uses a small value so that streams
\* below, at and above the ceiling are all enumerated).
MAX_FILE_SIZE_BYTES == 3

\* Largest body chunk iter_content yields, in model bytes.
MaxChunk == 2

\* _sanitize_filename is applied to names made of up to MaxPre sample
\* characters, a run of one character, and up to MaxPost sample characters.
MaxPre == 2

MaxPost == 1

----------------------------------------------------------------------------
(* Character strings *)

EndsWith(s, suf) ==
    /\ Len(s) >= Len(suf)
    /\ SubSeq(s, Len(s) - Len(suf) + 1, Len(s)) = suf

StartsWith(s, pre) ==
    /\ Len(s) >= Len(pre)
    /\ SubSeq(s, 1, Len(pre)) = pre

\* Python's `sub in s`
Contains(s, sub) ==
    \E i \in 1..(Len(s) + 1) :
        /\ i + Len(sub) - 1 <= Len(s)
        /\ SubSeq(s, i, i + Len(sub) - 1) = sub

\* str.lower() on the characters the sample inputs use
LowerChar(c) ==
    CASE c = "M" -> "m"
      [] c = "P" -> "p"
      [] c = "K" -> "k"
      [] c = "V" -> "v"
      [] c = "C" -> "c"
      [] OTHER -> c

Lower(s) == [i \in 1..Len(s) |-> LowerChar(s[i])]

\* str.rfind(c): the last index of c in s, 0 when absent (Python: -1)
RFind(s, c) ==
    IF \E i \in 1..Len(s) : s[i] = c
    THEN CHOOSE i \in 1..Len(s) : s[i] = c /\ \A j \in (i+1)..Len(s) : s[j] # c
    ELSE 0

\* os.path.splitext(p): <<root, ext>>.  The extension starts at the last dot
\* of the last path component, unless only dots precede it in that component.
splitext(p) ==
    LET sepIndex == RFind(p, "/")
        dotIndex == RFind(p, ".")
    IN  IF /\ dotIndex > sepIndex
           /\ \E k \in (sepIndex + 1)..(dotIndex - 1) : p[k] # "."
        THEN <<SubSeq(p, 1, dotIndex - 1), SubSeq(p, dotIndex, Len(p))>>
        ELSE <<p, <<>> >>

----------------------------------------------------------------------------
(* Configuration and pure helpers *)

VIDEO_EXTENSIONS ==
    { <<".", "m", "p", "4">>, <<".", "w", "e", "b", "m">>, <<".", "m", "k", "v">>,
      <<".", "a", "v", "i">>, <<".", "m", "o", "v">>, <<".", "f", "l", "v">>,
      <<".", "w", "m", "v">>, <<".", "m", "4", "v">>, <<".", "m", "p", "g">>,
      <<".", "m", "p", "e", "g">> }

\* Characters _sanitize_filename replaces: < > : " / \ | ? * and control
\* characters (those TLA+ strings can denote).
UnsafeChars == {"<", ">", ":", "\"", "/", "\\", "|", "?", "*", "\t", "\n", "\f", "\r"}

StripChars == {".", " "}

MaxNameLen == 100

FallbackName == <<"v", "i", "d", "e", "o">>

\* str.strip(chars)
Strip(s, chars) ==
    IF \A i \in 1..Len(s) : s[i] \in chars
    THEN <<>>
    ELSE LET first == CHOOSE i \in 1..Len(s) :
                          s[i] \notin chars /\ \A j \in 1..(i-1) : s[j] \in chars
             last  == CHOOSE i \in 1..Len(s) :
                          s[i] \notin chars /\ \A j \in (i+1)..Len(s) : s[j] \in chars
         IN  SubSeq(s, first, last)

\* The sanitizer without the truncation
_sanitize_filename_no_cut(name) ==
    LET replaced == [i \in 1..Len(name) |->
                        IF name[i] \in UnsafeChars THEN "_" ELSE name[i]]
        stripped == Strip(replaced, StripChars)
    IN  IF stripped = <<>> THEN FallbackName ELSE stripped

_sanitize_filename(name) ==
    LET replaced == [i \in 1..Len(name) |->
                        IF name[i] \in UnsafeChars THEN "_" ELSE name[i]]
        stripped == Strip(replaced, StripChars)
        cut      == IF Len(stripped) > MaxNameLen
                    THEN SubSeq(stripped, 1, MaxNameLen)
                    ELSE stripped
    IN  IF cut = <<>> THEN FallbackName ELSE cut

_is_valid_url_scheme_only(u) == u.scheme \in {"http", "https"}

_is_valid_url(u) == u.scheme \in {"http", "https"} /\ u.netloc # ""

_has_video_extension(u) ==
    \E ext \in VIDEO_EXTENSIONS : EndsWith(Lower(u.path), ext)

VideoPrefix == <<"v", "i", "d", "e", "o", "/">>

\* _is_video_content_type: head is the outcome of requests.head, either
\* "error" (any exception) or the Content-Type header of the response
\* (<<>> when the header is missing).
_is_video_content_type(head) ==
    IF head = <<"error">> THEN FALSE ELSE StartsWith(head, VideoPrefix)

----------------------------------------------------------------------------
(* Sample inputs and environment outcomes *)

Requests == {1, 2}

\* Names tempfile.mkdtemp can pick; it always picks one that does not exist.
DirNames == {"tmpA", "tmpB"}

P_page  == <<"/", "v">>
P_mp4   == <<"/", "c", ".", "m", "p", "4">>
P_MP4   == <<"/", "c", ".", "M", "P", "4">>
P_dot   == <<"/", ".", "m", "k", "v">>
P_txt   == <<"/", "a", ".", "t", "x", "t">>

\* Parsed request URLs: valid and invalid ones, with and without a video
\* extension.
URLs ==
    { [scheme |-> "https", netloc |-> "example.com", path |-> P_page],
      [scheme |-> "https", netloc |-> "example.com", path |-> P_mp4],
      [scheme |-> "http",  netloc |-> "example.com", path |-> P_MP4],
      [scheme |-> "https", netloc |-> "example.com", path |-> P_dot],
      [scheme |-> "https", netloc |-> "example.com", path |-> P_txt],
      [scheme |-> "ftp",   netloc |-> "example.com", path |-> P_mp4],
      [scheme |-> "https", netloc |-> "",            path |-> P_mp4],
      [scheme |-> "",      netloc |-> "",            path |-> P_page] }

NoUrl == [scheme |-> "", netloc |-> "", path |-> <<>>]

CT_mp4  == <<"v", "i", "d", "e", "o", "/", "m", "p", "4">>
CT_webm == <<"v", "i", "d", "e", "o", "/", "w", "e", "b", "m">>
CT_mkv  == <<"v", "i", "d", "e", "o", "/", "x", "-", "m", "a", "t", "r", "o", "s", "k", "a">>
CT_html == <<"t", "e", "x", "t", "/", "h", "t", "m", "l">>

\* Content-Type header values a response can carry (<<>>: header missing)
ContentTypes == {CT_mp4, CT_webm, CT_mkv, CT_html, <<>>}

HeadError == <<"error">>

HeadOutcomes == ContentTypes \cup {HeadError}

E_mp4  == <<".", "m", "p", "4">>
E_webm == <<".", "w", "e", "b", "m">>
E_mkv  == <<".", "m", "k", "v">>

W_webm == <<"w", "e", "b", "m">>
W_matroska  == <<"m", "a", "t", "r", "o", "s", "k", "a">>
W_xmatroska == <<"x", "-", "m", "a", "t", "r", "o", "s", "k", "a">>

\* uuid.uuid4().hex[:8]
HexSamples == { <<"0", "a", "1", "b", "2", "c", "3", "d">>,
                <<"f", "f", "f", "f", "f", "f", "f", "f">> }

VideoUnderscore == <<"v", "i", "d", "e", "o", "_">>

\* Title the extractor derives for the media
YtTitle == <<"t">>

\* Extensions of the extractor's output files
YtExts == {E_webm, E_mp4}

FileSizes == 0..(MAX_FILE_SIZE_BYTES + 1)

ChunkLens == 1..MaxChunk

\* What one run of the extractor library does: it raises, returns no info,
\* or returns info whose extension is infoExt; it may have left one file
\* YtTitle + wroteExt of some size in the output directory (wroteExt = <<>>:
\* no file).
YtOutcomes ==
    [kind : {"raise", "none"}, infoExt : {<<>>}, wroteExt : YtExts \cup {<<>>}, size : {1}]
    \cup
    [kind : {"info"}, infoExt : YtExts, wroteExt : {<<>>}, size : {0}]
    \cup
    [kind : {"info"}, infoExt : YtExts, wroteExt : YtExts, size : FileSizes]

----------------------------------------------------------------------------
(* State *)

VARIABLES
    req,     \* per request: the handler's position, locals and its history
    dirs,    \* directories that exist
    files,   \* the files that exist: path |-> size
    live,    \* the requests the environment issues
    ffmpeg,  \* where the merge tool is installed on this host (NoTool: nowhere)
    san      \* a call of _sanitize_filename: its argument and its result

vars == <<req, dirs, files, live, ffmpeg, san>>

Path(d, n) == [dir |-> d, name |-> n]

\* Python's None for a path
NoPath == Path("", <<>>)

exists(fs, p) == p \in DOMAIN fs

WriteFile(fs, p, sz) == [q \in (DOMAIN fs) \cup {p} |-> IF q = p THEN sz ELSE fs[q]]

RemoveFile(fs, p) == [q \in (DOMAIN fs) \ {p} |-> fs[q]]

\* shutil.rmtree(d, ignore_errors=True): everything under d is gone
rmtree(fs, d) == [q \in {x \in DOMAIN fs : x.dir # d} |-> fs[q]]

FilesIn(fs, d) == {p \in DOMAIN fs : p.dir = d}

\* No merge tool on the host
NoTool == ""

\* The options download_with_ytdlp passes to yt_dlp.YoutubeDL, for the size
\* ceiling limit
ydl_opts(limit) ==
    [outtmpl |-> "%(title).100s.%(ext)s", format |-> limit,
     merge_output_format |-> "mp4", noplaylist |-> TRUE, quiet |-> TRUE,
     no_warnings |-> TRUE, socket_timeout |-> 30, retries |-> 3]

\* _sanitize_filename has not been called
NoCall == [name |-> <<>>, out |-> <<>>, phase |-> "none", nPost |-> 0]

\* The extractor has not run
NoOutcome == [kind |-> "unset", infoExt |-> <<>>, wroteExt |-> <<>>, size |-> 0]

Idle ==
    [pc |-> "idle", url |-> NoUrl, acked |-> FALSE, reply |-> "none",
     nSends |-> 0, nFinal |-> 0, raised |-> FALSE, videoRaised |-> FALSE, ws |-> "",
     ytCalls |-> 0, ytOpts |-> {}, ytOutcome |-> NoOutcome, ytReturned |-> FALSE, ytRes |-> NoPath,
     directCalls |-> 0, directReturned |-> FALSE, directRes |-> NoPath,
     headCalls |-> 0, head |-> HeadError, getCalls |-> 0, opened |-> FALSE,
     dFile |-> NoPath, size |-> 0, ext |-> <<>>, ct |-> <<>>,
     streamEnded |-> FALSE, before |-> {},
     filepath |-> NoPath, uploaded |-> -1]

Init ==
    /\ req = [r \in Requests |-> Idle]
    /\ dirs = {}
    /\ files = [q \in {} |-> 0]
    /\ live = {1}
    /\ ffmpeg \in {NoTool, "/usr/bin/ffmpeg"}
    /\ san = NoCall

\* Two interactions are in progress at once: each handler awaits its own
\* run_in_executor call, so their steps interleave freely.
InitConc ==
    /\ req = [r \in Requests |-> Idle]
    /\ dirs = {}
    /\ files = [q \in {} |-> 0]
    /\ live = Requests
    /\ ffmpeg = "/usr/bin/ffmpeg"
    /\ san = NoCall

\* With two requests in progress the environment draws from fewer samples:
\* one URL with and one without a video extension, one random suffix (so
\* that both requests build the same file name), one content type.
Concurrent == Cardinality(live) > 1

UrlInputs ==
    IF Concurrent
    THEN { [scheme |-> "https", netloc |-> "example.com", path |-> P_mp4],
           [scheme |-> "https", netloc |-> "example.com", path |-> P_page] }
    ELSE URLs

YtInputs ==
    IF Concurrent
    THEN { o \in YtOutcomes :
             \/ o.kind = "raise" /\ o.wroteExt \in {<<>>, E_webm}
             \/ o.kind = "info" /\ o.infoExt = E_mp4 /\ o.wroteExt = E_mp4 /\ o.size = 1 }
    ELSE YtOutcomes

HeadInputs == IF Concurrent THEN {CT_mp4, HeadError} ELSE HeadOutcomes

ContentTypeInputs == IF Concurrent THEN {CT_mp4} ELSE ContentTypes

HexInputs ==
    IF Concurrent THEN { <<"f", "f", "f", "f", "f", "f", "f", "f">> } ELSE HexSamples

\* Whether a Discord call succeeds (FALSE: it raises)
SentInputs == BOOLEAN

----------------------------------------------------------------------------
(* download_command, up to the start of the download *)

Set(r, rec) == req' = [req EXCEPT ![r] = rec]

\* Discord delivers a /download interaction with some URL.
Receive(r) ==
    /\ r \in live
    /\ req[r].pc \in {"idle", "done"}
    /\ \E u \in UrlInputs : Set(r, [Idle EXCEPT !.pc = "validate", !.url = u])
    /\ UNCHANGED <<dirs, files, live, ffmpeg, san>>

\* if not _is_valid_url(url): send_message(...); return
\* await interaction.response.defer(thinking=True)
\* (sent: whether the Discord call succeeded; it raises otherwise)
Validate(r) ==
    /\ req[r].pc = "validate"
    /\ \E sent \in SentInputs :
         IF ~_is_valid_url(req[r].url)
         THEN Set(r, [req[r] EXCEPT !.pc = "done",
                                    !.reply = IF sent THEN "invalid" ELSE "none",
                                    !.raised = ~sent])
         ELSE Set(r, [req[r] EXCEPT !.pc = IF sent THEN "mkdtemp" ELSE "done",
                                    !.acked = sent,
                                    !.raised = ~sent])
    /\ UNCHANGED <<dirs, files, live, ffmpeg, san>>

\* A directory shared by all requests, were mkdtemp not used
FreshNames_shared(ds) == {"tmpA"}

\* The names mkdtemp can return: it retries until the name is unused
FreshNames(ds) == DirNames \ ds

\* tmp_dir = tempfile.mkdtemp(...): a new directory under a name that did
\* not exist, or an OSError, which ends the handler (the try block has not
\* been entered).
Mkdtemp(r) ==
    /\ req[r].pc = "mkdtemp"
    /\ \/ \E d \in FreshNames(dirs) :
            /\ dirs' = dirs \cup {d}
            /\ Set(r, [req[r] EXCEPT !.pc = "makedirs", !.ws = d])
       \/ /\ Set(r, [req[r] EXCEPT !.pc = "done", !.raised = TRUE])
          /\ UNCHANGED dirs
    /\ UNCHANGED <<files, live, ffmpeg, san>>

----------------------------------------------------------------------------
(* download_video *)

\* os.makedirs(dest_dir, exist_ok=True): outside any try block, so an
\* OSError leaves download_video and reaches the handler's finally clause.
Makedirs(r) ==
    /\ req[r].pc = "makedirs"
    /\ \/ /\ dirs' = dirs \cup {req[r].ws}
          /\ Set(r, [req[r] EXCEPT !.pc = "ytdlp"])
       \/ /\ Set(r, [req[r] EXCEPT !.pc = "finally", !.videoRaised = TRUE,
                                   !.raised = TRUE])
          /\ UNCHANGED dirs
    /\ UNCHANGED <<files, live, ffmpeg, san>>

\* path = download_with_ytdlp(url, dest_dir): the call
YtdlpCall(r) ==
    /\ req[r].pc = "ytdlp"
    /\ Set(r, [req[r] EXCEPT !.pc = "ytdlp_run", !.ytCalls = @ + 1,
                               !.ytOpts = DOMAIN ydl_opts(MAX_FILE_SIZE_BYTES)])
    /\ UNCHANGED <<dirs, files, live, ffmpeg, san>>

\* The result without the final os.path.exists check
YtdlpResult_unchecked(fs, d, o) ==
    IF o.kind # "info"
    THEN NoPath
    ELSE LET expected == Path(d, YtTitle \o o.infoExt)
         IN  IF ~exists(fs, expected)
             THEN Path(d, splitext(expected.name)[1] \o E_mp4)
             ELSE expected

\* The value download_with_ytdlp returns after an extractor run with outcome
\* o, given the files fs that exist when extract_info has returned.
YtdlpResult(fs, d, o) ==
    IF o.kind # "info"
    THEN NoPath
    ELSE LET expected == Path(d, YtTitle \o o.infoExt)
             merged   == Path(d, splitext(expected.name)[1] \o E_mp4)
             filepath == IF ~exists(fs, expected) THEN merged ELSE expected
         IN  IF exists(fs, filepath) THEN filepath ELSE NoPath

\* download_with_ytdlp runs the extractor and returns.
YtdlpReturn(r) ==
    /\ req[r].pc = "ytdlp_run"
    /\ \E o \in YtInputs :
         LET d  == req[r].ws
             fs == IF o.wroteExt = <<>> THEN files
                   ELSE WriteFile(files, Path(d, YtTitle \o o.wroteExt), o.size)
         IN  /\ files' = fs
             /\ Set(r, [req[r] EXCEPT !.pc = "fallback", !.ytReturned = TRUE,
                                      !.ytOutcome = o,
                                      !.ytRes = YtdlpResult(fs, d, o)])
    /\ UNCHANGED <<dirs, live, ffmpeg, san>>

NeedsFallback_always(path) == TRUE

\* `if path: return path`, else the fallback
NeedsFallback(path) == path = NoPath

\* if path: return path / return download_direct(url, dest_dir)
Fallback(r) ==
    /\ req[r].pc = "fallback"
    /\ IF NeedsFallback(req[r].ytRes)
       THEN Set(r, [req[r] EXCEPT !.pc = "direct", !.directCalls = @ + 1,
                                  !.before = FilesIn(files, req[r].ws)])
       ELSE Set(r, [req[r] EXCEPT !.pc = "returned", !.filepath = req[r].ytRes])
    /\ UNCHANGED <<dirs, files, live, ffmpeg, san>>

----------------------------------------------------------------------------
(* download_direct *)

\* download_direct returns p, and download_video returns that to the handler.
DirectReturns(r, rec, p) ==
    Set(r, [rec EXCEPT !.pc = "returned", !.directReturned = TRUE,
                       !.directRes = p, !.filepath = p])

DirectGuardProceeds_always(hasExt, isVideo) == TRUE

\* if not (_has_video_extension(url) or _is_video_content_type(url)): return None
DirectGuardProceeds(hasExt, isVideo) == hasExt \/ isVideo

\* The guard.  `or` short-circuits: the HEAD probe is sent only when the URL
\* has no video extension.
DirectGuard(r) ==
    /\ req[r].pc = "direct"
    /\ LET hasExt == _has_video_extension(req[r].url)
       IN  \E head \in IF hasExt THEN {HeadError} ELSE HeadInputs :
             LET isVideo == ~hasExt /\ _is_video_content_type(head)
                 rec     == [req[r] EXCEPT !.headCalls = IF hasExt THEN @ ELSE @ + 1,
                                           !.head = head]
             IN  IF DirectGuardProceeds(hasExt, isVideo)
                 THEN Set(r, [rec EXCEPT !.pc = "get"])
                 ELSE DirectReturns(r, rec, NoPath)
    /\ UNCHANGED <<dirs, files, live, ffmpeg, san>>

\* The extension of the output file
ChooseExt(u, content_type) ==
    IF _has_video_extension(u) THEN splitext(u.path)[2]
    ELSE IF Contains(content_type, W_webm) THEN E_webm
    ELSE IF Contains(content_type, W_matroska) \/ Contains(content_type, W_xmatroska)
         THEN E_mkv
    ELSE E_mp4

\* resp = requests.get(...); resp.raise_for_status(); the extension and the
\* file name.  Either call may raise: the except clause returns None.
DirectGet(r) ==
    /\ req[r].pc = "get"
    /\ LET rec == [req[r] EXCEPT !.getCalls = @ + 1]
       IN  \/ DirectReturns(r, rec, NoPath)
           \/ \E ct \in ContentTypeInputs, hex \in HexInputs :
                LET ext      == ChooseExt(req[r].url, ct)
                    filename == _sanitize_filename(VideoUnderscore \o hex) \o ext
                IN  Set(r, [rec EXCEPT !.pc = "open", !.ext = ext, !.ct = ct,
                                       !.dFile = Path(req[r].ws, filename)])
    /\ UNCHANGED <<dirs, files, live, ffmpeg, san>>

\* size = 0; open(filepath, "wb"): creates (or truncates) the file, or raises
DirectOpen(r) ==
    /\ req[r].pc = "open"
    /\ \/ /\ req[r].ws \in dirs
          /\ files' = WriteFile(files, req[r].dFile, 0)
          /\ Set(r, [req[r] EXCEPT !.pc = "stream", !.opened = TRUE, !.size = 0])
       \/ /\ DirectReturns(r, req[r], NoPath)
          /\ UNCHANGED files
    /\ UNCHANGED <<dirs, live, ffmpeg, san>>

ExceedsCeiling_off_by_one(size) == size >= MAX_FILE_SIZE_BYTES

\* A check that lets one byte too many through
ExceedsCeiling_late(size) == size > MAX_FILE_SIZE_BYTES + 1

\* if size > MAX_FILE_SIZE_BYTES
ExceedsCeiling(size) == size > MAX_FILE_SIZE_BYTES

AppendChunk_dropped(fs, p, n) == fs

\* f.write(chunk)
AppendChunk(fs, p, n) == WriteFile(fs, p, fs[p] + n)

\* One iteration of the loop over resp.iter_content: a chunk of n bytes
\* arrives; the running count is checked, then the chunk is written (or the
\* write raises, and the except clause returns None).
DirectChunk(r) ==
    /\ req[r].pc = "stream"
    /\ \E n \in ChunkLens, written \in BOOLEAN :
         LET rec == [req[r] EXCEPT !.size = @ + n]
         IN  IF ExceedsCeiling(rec.size)
             THEN /\ files' = RemoveFile(files, req[r].dFile)
                  /\ DirectReturns(r, rec, NoPath)
             ELSE IF written
             THEN /\ files' = AppendChunk(files, req[r].dFile, n)
                  /\ Set(r, rec)
             ELSE /\ UNCHANGED files
                  /\ DirectReturns(r, rec, NoPath)
    /\ UNCHANGED <<dirs, live, ffmpeg, san>>

\* The body is exhausted: return filepath
DirectEnd(r) ==
    /\ req[r].pc = "stream"
    /\ DirectReturns(r, [req[r] EXCEPT !.streamEnded = TRUE], req[r].dFile)
    /\ UNCHANGED <<dirs, files, live, ffmpeg, san>>

\* iter_content raises in the middle of the body: the except clause returns
\* None
DirectStreamError(r) ==
    /\ req[r].pc = "stream"
    /\ DirectReturns(r, req[r], NoPath)
    /\ UNCHANGED <<dirs, files, live, ffmpeg, san>>

----------------------------------------------------------------------------
(* download_command, after download_video has returned *)

TooLarge_never(file_size) == FALSE

\* if file_size > MAX_FILE_SIZE_BYTES
TooLarge(file_size) == file_size > MAX_FILE_SIZE_BYTES

IsEmpty_never(file_size) == FALSE

\* if file_size == 0
IsEmpty(file_size) == file_size = 0

\* The final reply the handler chooses for the path download_video returned
ReplyFor(fs, filepath) ==
    IF filepath = NoPath THEN "could_not"
    ELSE IF TooLarge(fs[filepath]) THEN "too_large"
    ELSE IF IsEmpty(fs[filepath]) THEN "empty"
    ELSE "file"

\* An empty file answered by a bare return
SendsFor_silent_empty(kind) == IF kind = "empty" THEN 0 ELSE 1

\* The number of followup.send calls on the branch that handles kind: each
\* of the four branches makes one
SendsFor(kind) == 1

\* The rest of the try block: one followup.send, with the file attached when
\* it passes the checks.  os.path.getsize raises when the file is missing;
\* the send may raise (sent = FALSE).  Every way out leads to the finally
\* clause.
Reply(r) ==
    /\ req[r].pc = "returned"
    /\ LET fp == req[r].filepath
       IN  IF fp # NoPath /\ ~exists(files, fp)
           THEN Set(r, [req[r] EXCEPT !.pc = "finally", !.raised = TRUE])
           ELSE \E sent \in SentInputs :
                  LET kind == ReplyFor(files, fp)
                      n    == SendsFor(kind)
                      ok   == sent /\ n > 0
                  IN  Set(r, [req[r] EXCEPT
                                !.pc = "finally",
                                !.raised = n > 0 /\ ~sent,
                                !.reply = IF ok THEN kind ELSE "none",
                                !.nSends = @ + n,
                                !.nFinal = IF ok THEN @ + 1 ELSE @,
                                !.uploaded = IF ok /\ kind = "file"
                                             THEN files[fp] ELSE -1])
    /\ UNCHANGED <<dirs, files, live, ffmpeg, san>>

\* The cleanup, were it placed outside a finally clause
CleanupOnExit_normal_only(raised) == ~raised

\* finally: the cleanup runs whether or not the try block raised
CleanupOnExit(raised) == TRUE

RemoveWorkspace(r, nextPc) ==
    /\ dirs' = dirs \ {req[r].ws}
    /\ files' = rmtree(files, req[r].ws)
    /\ Set(r, [req[r] EXCEPT !.pc = nextPc])

\* The cleanup, were it to run as soon as download_video has returned
Finally_before_reply(r) ==
    /\ \/ req[r].pc = "finally" /\ RemoveWorkspace(r, "done")
       \/ /\ req[r].pc = "returned"
          /\ req[r].ws \in dirs
          /\ RemoveWorkspace(r, "returned")
    /\ UNCHANGED <<live, ffmpeg, san>>

\* finally: shutil.rmtree(tmp_dir, ignore_errors=True)
Finally(r) ==
    /\ req[r].pc = "finally"
    /\ IF CleanupOnExit(req[r].raised)
       THEN RemoveWorkspace(r, "done")
       ELSE Set(r, [req[r] EXCEPT !.pc = "done"]) /\ UNCHANGED <<dirs, files>>
    /\ UNCHANGED <<live, ffmpeg, san>>

----------------------------------------------------------------------------

Next ==
    \E r \in Requests :
        \/ Receive(r)
        \/ Validate(r)
        \/ Mkdtemp(r)
        \/ Makedirs(r)
        \/ YtdlpCall(r)
        \/ YtdlpReturn(r)
        \/ Fallback(r)
        \/ DirectGuard(r)
        \/ DirectGet(r)
        \/ DirectOpen(r)
        \/ DirectChunk(r)
        \/ DirectEnd(r)
        \/ DirectStreamError(r)
        \/ Reply(r)
        \/ Finally(r)

Spec == Init /\ [][Next]_vars

SpecConc == InitConc /\ [][Next]_vars

----------------------------------------------------------------------------
(* _sanitize_filename on its own *)

\* Characters at the two ends of a sample name
EdgeChars == {"a", ".", " ", "<"}

\* The character of the run in the middle: every replaced character, the
\* stripped ones and a plain one
PadChars == UnsafeChars \cup StripChars \cup {"a"}

\* Lengths of the run: none, one, around the truncation length, twice it
PadLens == {0, 1, MaxNameLen - 1, MaxNameLen, MaxNameLen + 1, 2 * MaxNameLen}

Repeat(c, k) == [i \in 1..k |-> c]

Called(name, phase, nPost) ==
    san' = [name |-> name, out |-> _sanitize_filename(name), phase |-> phase,
            nPost |-> nPost]

InitSan ==
    /\ req = [r \in Requests |-> Idle]
    /\ dirs = {}
    /\ files = [q \in {} |-> 0]
    /\ live = {}
    /\ ffmpeg = NoTool
    /\ san = [name |-> <<>>, out |-> _sanitize_filename(<<>>), phase |-> "pre",
              nPost |-> 0]

SanPre ==
    /\ san.phase = "pre"
    /\ Len(san.name) < MaxPre
    /\ \E c \in EdgeChars : Called(Append(san.name, c), "pre", 0)
    /\ UNCHANGED <<req, dirs, files, live, ffmpeg>>

SanPad ==
    /\ san.phase = "pre"
    /\ \E c \in PadChars, k \in PadLens : Called(san.name \o Repeat(c, k), "post", 0)
    /\ UNCHANGED <<req, dirs, files, live, ffmpeg>>

SanPost ==
    /\ san.phase = "post"
    /\ san.nPost < MaxPost
    /\ \E c \in EdgeChars : Called(Append(san.name, c), "post", san.nPost + 1)
    /\ UNCHANGED <<req, dirs, files, live, ffmpeg>>

NextSan == SanPre \/ SanPad \/ SanPost

SpecSanitize == InitSan /\ [][NextSan]_vars

----------------------------------------------------------------------------
(* Properties *)

\* download_video has returned a value to the handler
Resolved(r) == req[r].ytReturned /\ req[r].pc \in {"returned", "finally", "done"}

\* C1: download_direct is invoked at most once, and only after
\* download_with_ytdlp has returned None; once download_video has returned,
\* download_direct was invoked exactly once if the extractor returned None
\* and the result is download_direct's result, and it was never invoked if
\* the extractor returned a path, which is then the result.
C1_ResolverFallback ==
    \A r \in Requests :
        /\ req[r].ytCalls <= 1
        /\ req[r].directCalls <= 1
        /\ req[r].directCalls = 1 => req[r].ytReturned /\ req[r].ytRes = NoPath
        /\ Resolved(r) /\ req[r].ytRes = NoPath =>
              /\ req[r].directCalls = 1
              /\ req[r].directReturned
              /\ req[r].filepath = req[r].directRes
        /\ Resolved(r) /\ req[r].ytRes # NoPath =>
              /\ req[r].directCalls = 0
              /\ req[r].filepath = req[r].ytRes

C1_Witness ==
    \E r \in Requests :
        /\ req[r].pc = "returned"
        /\ req[r].ytRes = NoPath
        /\ req[r].directCalls = 1
        /\ req[r].filepath # NoPath

\* C2: once the handler of a request that created a workspace has finished,
\* on whatever exit path, the workspace directory does not exist and no file
\* remains under it.
C2_WorkspaceRemoved ==
    \A r \in Requests :
        req[r].pc = "done" /\ req[r].ws # "" =>
            /\ req[r].ws \notin dirs
            /\ FilesIn(files, req[r].ws) = {}

C2_Witness ==
    \E r \in Requests :
        /\ req[r].pc = "done"
        /\ req[r].ws # ""
        /\ req[r].raised
        /\ req[r].ytReturned

\* C3: when download_direct returns after receiving more bytes than the
\* ceiling, it returns None and its output file does not exist; it removes
\* its output file only when the count exceeds the ceiling (a body of exactly
\* the ceiling is kept and returned); a file it returns holds every byte
\* received and is not larger than the ceiling.
C3_DirectCeiling ==
    \A r \in Requests :
        req[r].pc = "returned" /\ req[r].directReturned =>
            /\ req[r].size > MAX_FILE_SIZE_BYTES =>
                  req[r].directRes = NoPath /\ ~exists(files, req[r].dFile)
            /\ req[r].opened /\ ~exists(files, req[r].dFile) =>
                  req[r].size > MAX_FILE_SIZE_BYTES
            /\ req[r].streamEnded => req[r].directRes = req[r].dFile
            /\ req[r].directRes # NoPath =>
                  /\ exists(files, req[r].directRes)
                  /\ files[req[r].directRes] = req[r].size
                  /\ files[req[r].directRes] <= MAX_FILE_SIZE_BYTES

C3_Witness ==
    \E r \in Requests :
        /\ req[r].pc = "returned"
        /\ req[r].directReturned
        /\ req[r].size > MAX_FILE_SIZE_BYTES

\* C4: the handler never uploads a file larger than the ceiling; when the
\* resolved file is larger, no file is attached and the reply that was sent
\* is the failure message.
C4_NoOversizedUpload ==
    \A r \in Requests :
        /\ req[r].uploaded <= MAX_FILE_SIZE_BYTES
        /\ ( /\ req[r].pc = "finally"
             /\ req[r].filepath # NoPath
             /\ exists(files, req[r].filepath)
             /\ files[req[r].filepath] > MAX_FILE_SIZE_BYTES )
           => /\ req[r].uploaded = -1
              /\ req[r].reply \in {"too_large", "none"}
              /\ req[r].reply = "none" => req[r].raised

C4_Witness ==
    \E r \in Requests :
        /\ req[r].pc = "finally"
        /\ req[r].filepath # NoPath
        /\ exists(files, req[r].filepath)
        /\ files[req[r].filepath] > MAX_FILE_SIZE_BYTES
        /\ req[r].reply = "too_large"

\* C5: the handler never uploads a zero-byte file; when the resolved file is
\* empty, from either strategy, no file is attached and the reply that was
\* sent is a failure message.
C5_NoEmptyUpload ==
    \A r \in Requests :
        /\ req[r].uploaded # 0
        /\ ( /\ req[r].pc = "finally"
             /\ req[r].filepath # NoPath
             /\ exists(files, req[r].filepath)
             /\ files[req[r].filepath] = 0 )
           => /\ req[r].uploaded = -1
              /\ req[r].reply \in {"empty", "none"}
              /\ req[r].reply = "none" => req[r].raised

C5_Witness ==
    \E r \in Requests :
        /\ req[r].pc = "finally"
        /\ req[r].directRes # NoPath
        /\ req[r].filepath = req[r].directRes
        /\ exists(files, req[r].filepath)
        /\ files[req[r].filepath] = 0
        /\ req[r].reply = "empty"

\* The path download_direct returned names an existing file in dest_dir that
\* holds exactly the bytes received and carries the detected extension.
DirectFileAsReturned(r) ==
    /\ exists(files, req[r].directRes)
    /\ req[r].directRes.dir = req[r].ws
    /\ files[req[r].directRes] = req[r].size
    /\ splitext(req[r].directRes.name)[2] = req[r].ext

\* C6 as stated: whenever download_direct returns a path, the file exists in
\* dest_dir, is non-empty, holds the bytes transferred and has the detected
\* extension.
C6_DirectFileNonEmpty ==
    \A r \in Requests :
        req[r].pc = "returned" /\ req[r].directRes # NoPath =>
            /\ DirectFileAsReturned(r)
            /\ files[req[r].directRes] > 0

\* C6 (amended): whenever download_direct returns a path, the file exists in
\* dest_dir, its size equals the number of bytes transferred (so it is empty
\* exactly when the body was empty) and it has the detected extension.
C6_DirectFile ==
    \A r \in Requests :
        req[r].pc = "returned" /\ req[r].directRes # NoPath =>
            /\ DirectFileAsReturned(r)
            /\ files[req[r].directRes] = 0 <=> req[r].size = 0

C6_Witness ==
    \E r \in Requests :
        /\ req[r].pc = "returned"
        /\ req[r].directRes # NoPath
        /\ req[r].size = MAX_FILE_SIZE_BYTES
        /\ req[r].ext = E_mp4

\* C7: when the URL has no video extension and the HEAD probe does not
\* report a video content type, download_direct has returned None at once:
\* no GET was issued, no file was opened and dest_dir holds what it held.
C7_GuardDeclines ==
    \A r \in Requests :
        ( /\ req[r].directCalls = 1
          /\ req[r].pc # "direct"
          /\ ~(\E ext \in VIDEO_EXTENSIONS : EndsWith(Lower(req[r].url.path), ext))
          /\ ~(req[r].head # HeadError /\ StartsWith(req[r].head, VideoPrefix)) )
        => /\ req[r].directReturned
           /\ req[r].directRes = NoPath
           /\ req[r].getCalls = 0
           /\ ~req[r].opened
           /\ req[r].pc = "returned" => FilesIn(files, req[r].ws) = req[r].before

C7_Witness ==
    \E r \in Requests :
        /\ req[r].pc = "returned"
        /\ req[r].directReturned
        /\ req[r].headCalls = 1
        /\ req[r].head = CT_html
        /\ req[r].getCalls = 0

\* C8 as stated: no exception leaves download_video, and an extractor
\* failure still lets the direct-fetch fallback run.
C8_NoExceptionLeavesResolver ==
    \A r \in Requests :
        /\ ~req[r].videoRaised
        /\ Resolved(r) /\ req[r].ytRes = NoPath => req[r].directCalls = 1

\* C9: for a URL that fails validation the handler has only reported the
\* error: no deferred acknowledgement, no workspace, no strategy call, no
\* network request.
C9_InvalidUrlNoIO ==
    \A r \in Requests :
        ( /\ req[r].pc \notin {"idle", "validate"}
          /\ (req[r].url.scheme \notin {"http", "https"} \/ req[r].url.netloc = "") )
        => /\ req[r].pc = "done"
           /\ req[r].reply \in {"invalid", "none"}
           /\ req[r].reply = "none" => req[r].raised
           /\ ~req[r].acked
           /\ req[r].ws = ""
           /\ req[r].ytCalls = 0
           /\ req[r].directCalls = 0
           /\ req[r].headCalls = 0
           /\ req[r].getCalls = 0

C9_Witness ==
    \E r \in Requests :
        /\ req[r].pc = "done"
        /\ req[r].url.netloc = ""
        /\ req[r].url.scheme = "https"
        /\ req[r].reply = "invalid"

\* C10: the workspace exists from before the first strategy call until the
\* handler has finished replying: a strategy runs only with the workspace
\* created, the workspace is gone only once the handler is done, and the
\* file download_video returned exists when the handler reads it and still
\* exists when the upload has completed.
C10_WorkspaceSpansUpload ==
    \A r \in Requests :
        /\ req[r].ytCalls > 0 \/ req[r].directCalls > 0 => req[r].ws # ""
        /\ req[r].ws # "" /\ req[r].ws \notin dirs => req[r].pc = "done"
        /\ req[r].pc = "returned" /\ req[r].filepath # NoPath =>
              exists(files, req[r].filepath) /\ req[r].filepath.dir = req[r].ws
        /\ req[r].pc = "finally" /\ req[r].reply = "file" =>
              /\ exists(files, req[r].filepath)
              /\ req[r].uploaded = files[req[r].filepath]

C10_Witness ==
    \E r \in Requests :
        /\ req[r].pc = "finally"
        /\ req[r].reply = "file"
        /\ exists(files, req[r].filepath)
        /\ req[r].ws \in dirs

\* The handler of r holds a workspace and has not finished
InFlight(r) == req[r].ws # "" /\ req[r].pc \notin {"idle", "done"}

\* Every path request r computed lies in its own workspace
OwnPaths(r) ==
    \A p \in {req[r].dFile, req[r].ytRes, req[r].directRes, req[r].filepath} :
        p # NoPath => p.dir = req[r].ws

\* A step that is not a step of request s leaves the workspace of s and the
\* files in it as they were
Untouched(s) ==
    (InFlight(s) /\ req'[s] = req[s]) =>
        /\ (req[s].ws \in dirs) = (req[s].ws \in dirs')
        /\ FilesIn(files', req[s].ws) = FilesIn(files, req[s].ws)
        /\ \A p \in FilesIn(files, req[s].ws) : files'[p] = files[p]

\* C11: two requests in progress at once hold distinct workspace
\* directories; every path a request's strategies produce, and every file on
\* disk, lies under the workspace of a request in progress; and no step of
\* one request (its failure and its cleanup included) creates, removes or
\* alters a file in the workspace of another request that has not finished.
C11_RequestIsolation ==
    /\ [](\A r \in Requests :
            /\ InFlight(r) => req[r].ws \in dirs /\ OwnPaths(r)
            /\ \A s \in Requests \ {r} :
                  InFlight(r) /\ InFlight(s) => req[r].ws # req[s].ws)
    /\ [](\A p \in DOMAIN files : \E r \in Requests : InFlight(r) /\ p.dir = req[r].ws)
    /\ [][\A s \in Requests : Untouched(s)]_vars

C11_Witness ==
    \E r \in Requests : \E s \in Requests \ {r} :
        /\ InFlight(r) /\ InFlight(s)
        /\ req[r].url = req[s].url
        /\ req[r].opened /\ req[s].opened
        /\ req[r].dFile.name = req[s].dFile.name
        /\ exists(files, req[r].dFile) /\ exists(files, req[s].dFile)
        /\ req[s].pc = "finally" /\ req[r].pc = "stream"

\* C12: for a valid URL the deferred acknowledgement precedes the workspace
\* and the download; no final reply is sent before download_video has
\* returned; once it has returned and the handler has replied, exactly one
\* followup.send was issued, carrying either the file or one of the failure
\* messages, and it was delivered unless that call itself raised.
C12_AckThenOneReply ==
    \A r \in Requests :
        /\ req[r].ws # "" \/ req[r].ytCalls > 0 => req[r].acked
        /\ ( /\ _is_valid_url(req[r].url)
             /\ req[r].pc \notin {"idle", "validate"}
             /\ ~req[r].acked ) => req[r].pc = "done" /\ req[r].raised
        /\ req[r].pc \notin {"finally", "done"} => req[r].nSends = 0
        /\ req[r].uploaded # -1 <=> req[r].reply = "file"
        /\ Resolved(r) /\ req[r].pc \in {"finally", "done"} =>
              /\ req[r].nSends = 1
              /\ \/ /\ req[r].nFinal = 1
                    /\ req[r].reply \in {"could_not", "too_large", "empty", "file"}
                    /\ ~req[r].raised
                 \/ /\ req[r].nFinal = 0
                    /\ req[r].reply = "none"
                    /\ req[r].raised

C12_Witness ==
    \E r \in Requests :
        /\ req[r].pc = "done"
        /\ req[r].acked
        /\ req[r].nFinal = 1
        /\ req[r].reply = "empty"

\* C13 as stated: when the merge tool is installed, the options of every
\* extractor run name its location (ffmpeg_location); when it is absent the
\* extractor is still run, without that option.
C13_FfmpegLocationPassed ==
    \A r \in Requests :
        req[r].ytCalls > 0 =>
            ("ffmpeg_location" \in req[r].ytOpts) <=> (ffmpeg # NoTool)

\* C14: _sanitize_filename returns a non-empty string of at most 100
\* characters without any of < > : " / \ | ? * and without control
\* characters; the empty string and a string of only dots and spaces give
\* "video".
C14_SanitizedName ==
    san.phase # "none" =>
        /\ san.out # <<>>
        /\ Len(san.out) <= 100
        /\ \A i \in 1..Len(san.out) :
              san.out[i] \notin {"<", ">", ":", "\"", "/", "\\", "|", "?", "*",
                                 "\t", "\n", "\f", "\r"}
        /\ (\A i \in 1..Len(san.name) : san.name[i] \in {".", " "}) =>
              san.out = <<"v", "i", "d", "e", "o">>

C14_Witness ==
    /\ Len(san.name) > 200
    /\ san.name[1] = "."
    /\ san.name[3] = "/"
    /\ Len(san.out) = 100
    /\ san.out[2] = "_"

\* C15: when download_with_ytdlp has returned, a path it returned names an
\* existing file; without info (or after an exception) it returned None;
\* with info it returned the expected path if that file exists, otherwise
\* the same base name with .mp4 if that file exists, otherwise None.
C15_YtdlpPostCheck ==
    \A r \in Requests :
        req[r].pc = "fallback" =>
            LET o        == req[r].ytOutcome
                expected == [dir |-> req[r].ws, name |-> <<"t">> \o o.infoExt]
                merged   == [dir |-> req[r].ws, name |-> <<"t", ".", "m", "p", "4">>]
            IN  /\ req[r].ytRes # NoPath => req[r].ytRes \in DOMAIN files
                /\ o.kind # "info" => req[r].ytRes = NoPath
                /\ o.kind = "info" =>
                      req[r].ytRes = IF expected \in DOMAIN files THEN expected
                                     ELSE IF merged \in DOMAIN files THEN merged
                                     ELSE NoPath

C15_Witness ==
    \E r \in Requests :
        /\ req[r].pc = "fallback"
        /\ req[r].ytOutcome.kind = "info"
        /\ req[r].ytOutcome.infoExt = E_webm
        /\ req[r].ytRes = [dir |-> req[r].ws, name |-> <<"t", ".", "m", "p", "4">>]

\* C16 as stated: the extension download_direct chose is the URL's own
\* extension when the URL has a video extension, otherwise .webm, .mkv or
\* .mp4 according to the content type of the GET response; in every case it
\* is a non-empty known video extension and the file name ends in it.
C16_ExtensionKnown ==
    \A r \in Requests :
        req[r].dFile # NoPath =>
            LET hasExt == \E e \in VIDEO_EXTENSIONS : EndsWith(Lower(req[r].url.path), e)
                webm   == Contains(req[r].ct, W_webm)
                mkv    == Contains(req[r].ct, W_matroska)
            IN  /\ hasExt => EndsWith(req[r].url.path, req[r].ext)
                /\ ~hasExt /\ webm => req[r].ext = E_webm
                /\ ~hasExt /\ ~webm /\ mkv => req[r].ext = E_mkv
                /\ ~hasExt /\ ~webm /\ ~mkv => req[r].ext = E_mp4
                /\ req[r].ext # <<>>
                /\ Lower(req[r].ext) \in VIDEO_EXTENSIONS
                /\ EndsWith(req[r].dFile.name, req[r].ext)

\* C17: while download_direct streams, and when it has returned, its output
\* file never holds more bytes than the ceiling, nor more than were received.
C17_WrittenWithinCeiling ==
    \A r \in Requests :
        ( /\ req[r].opened
          /\ req[r].pc \in {"stream", "returned"}
          /\ exists(files, req[r].dFile) )
        => /\ files[req[r].dFile] <= MAX_FILE_SIZE_BYTES
           /\ files[req[r].dFile] <= req[r].size

C17_Witness ==
    \E r \in Requests :
        /\ req[r].pc = "stream"
        /\ req[r].opened
        /\ files[req[r].dFile] = MAX_FILE_SIZE_BYTES

\* C18 as stated: whenever download_direct has returned None, dest_dir holds
\* the files it held when download_direct was called, and the output file,
\* if one was created, is gone.
C18_NoneLeavesNoFile ==
    \A r \in Requests :
        ( /\ req[r].pc = "returned"
          /\ req[r].directReturned
          /\ req[r].directRes = NoPath )
        => /\ FilesIn(files, req[r].ws) = req[r].before
           /\ req[r].opened => ~exists(files, req[r].dFile)

====
